---- MODULE Spec2Model ----
(***************************************************************************)
(* Model of the compact-block-filter wallet synchronisation of             *)
(* src/src/wallet/cbf.rs: CbfBlockchain with its sync cursor, its caches,  *)
(* the event loop process_events and the reconciliation of matched         *)
(* transactions against the wallet store.                                  *)
(***************************************************************************)
EXTENDS Integers, Sequences, FiniteSets, TLC

(* ---------------------------- bounds ----------------------------------- *)

\* Block heights carried by events and by the tip query range over 0..MaxHeight.
MaxHeight == 2
\* A BlockMatched event carries 1..MaxBlockTxs transactions.
MaxBlockTxs == 2

Heights == 0..MaxHeight
BlockHeights == 1..MaxHeight

(* ------------------------------ events --------------------------------- *)

\* A reply of the engine: an event of the channel, or the answer to the tip
\* query.  The fields an event kind does not carry are 0, << >> or "none".
Ev(kind, height, tip, transactions, fees) ==
    [kind |-> kind, height |-> height, tip |-> tip,
     transactions |-> transactions, fees |-> fees]

NoEvent == Ev("None", 0, 0, << >>, "none")

(* ----------------------- transactions on the wire ---------------------- *)

\* Output scripts: S is tracked by the wallet, X is foreign.
Scripts == {"S", "X"}
Tracked == {"S"}

Txids == {"T1", "T2"}

OutPoint(txid, vout) == [txid |-> txid, vout |-> vout]

\* The transactions the engine can deliver.  T1 pays the wallet twice, T2
\* spends T1:0 and pays nothing back; "E" is a funding transaction the wallet
\* never sees.
Tx(txid) ==
    CASE txid = "T1" ->
           [txid |-> "T1",
            input |-> << OutPoint("E", 0) >>,
            output |-> << [value |-> 50000, script_pubkey |-> "S"],
                          [value |-> 1000, script_pubkey |-> "X"],
                          [value |-> 2000, script_pubkey |-> "S"] >>]
      [] txid = "T2" ->
           [txid |-> "T2",
            input |-> << OutPoint("E", 1), OutPoint("T1", 0) >>,
            output |-> << [value |-> 49000, script_pubkey |-> "X"] >>]

\* The transaction lists a BlockMatched event can carry.
TxLists == UNION { [1..n -> Txids] : n \in 1..MaxBlockTxs }

FeeEstimates == {"low", "high"}

(* ------------------------------ state ---------------------------------- *)

VARIABLES
    pc,                 \* the call in progress or how the last call returned
    last_sync_height,   \* CbfBlockchain.last_sync_height
    fee_data,           \* CbfBlockchain.fee_data: height -> fee estimate
    broadcasted_txs,    \* CbfBlockchain.broadcasted_txs
    utxos,              \* wallet store: the set of Utxo records
    stored_txs,         \* wallet store: the txids of the stored transactions
    lastEvent,          \* the engine's last reply: the event pulled, or the tip
    cancel_requested,   \* the host has asked the running loop to stop
    recording,          \* history: whether the two variables below are kept
    matched,            \* history: per connected height, the txids reconciled at it
    clean               \* history: no store call failed, no transaction came twice

vars == << pc, last_sync_height, fee_data, broadcasted_txs, utxos, stored_txs,
           lastEvent, cancel_requested, recording, matched, clean >>

(* --------------------------- wallet store ------------------------------ *)

is_utxo_tracked(us, outpoint) == \E u \in us : u.outpoint = outpoint

\* Adding an outpoint that is already present is a no-op.
add_utxo(us, outpoint, amount, script) ==
    IF is_utxo_tracked(us, outpoint)
    THEN us
    ELSE us \cup {[outpoint |-> outpoint, amount |-> amount, script |-> script]}

\* Removing an absent outpoint is a no-op.
remove_utxo(us, outpoint) == {u \in us : u.outpoint # outpoint}

store_transaction(txs, txid) == txs \cup {txid}

is_script_tracked(script) == script \in Tracked

(* ------------------------------ fee cache ------------------------------ *)

\* add_fee_data: HashMap::insert on the taken map, which is then set back;
\* the entry of the height is inserted or replaced.  No arm of
\* process_events calls it.
add_fee_data(data, height, fee_estimate) ==
    [h \in (DOMAIN data) \cup {height} |->
        IF h = height THEN fee_estimate ELSE data[h]]

(* ------------------------- relevance matching -------------------------- *)

\* The enumerate loop of find_relevant_outputs from the i-th script on (idx
\* is i - 1): pushes (idx, script) when the script is tracked.
RECURSIVE RelevantFrom(_, _, _)
RelevantFrom(output_scripts, i, relevant_outputs) ==
    IF i > Len(output_scripts) THEN relevant_outputs
    ELSE IF is_script_tracked(output_scripts[i])
         THEN RelevantFrom(output_scripts, i + 1,
                           Append(relevant_outputs, << i - 1, output_scripts[i] >>))
         ELSE RelevantFrom(output_scripts, i + 1, relevant_outputs)

\* Mutant: the tracked-script test is left out, every output is relevant.
find_relevant_outputs_unfiltered(output_scripts) ==
    [i \in 1..Len(output_scripts) |-> << i - 1, output_scripts[i] >>]

\* Mutant: each match is inserted at the front of the list instead of being
\* pushed at its end.
find_relevant_outputs_reversed(output_scripts) ==
    LET r == RelevantFrom(output_scripts, 1, << >>)
    IN [j \in 1..Len(r) |-> r[Len(r) + 1 - j]]

\* (index, script) of the outputs whose script is tracked, 0-based index.
find_relevant_outputs(output_scripts) == RelevantFrom(output_scripts, 1, << >>)

\* The input outpoints that exist as UTXOs in the store, in input order.
find_relevant_inputs(us, input_outpoints) ==
    SelectSeq(input_outpoints, LAMBDA op : is_utxo_tracked(us, op))

(* ------------------- reconciliation, with store failures --------------- *)

\* A reconciliation context: the store, the number of wallet-store calls made
\* so far, whether one of them has failed (the `?` then returned the error),
\* and the txids whose update_wallet_with_tx returned Ok.
Ctx(us, txs) ==
    [utxos |-> us, txs |-> txs, calls |-> 0, failed |-> FALSE, reconciled |-> {}]

\* The failAt-th wallet-store call of an event fails; 0 means none does.
CallFails(c, failAt) == c.calls + 1 = failAt

\* Mutant: the error of the failing call is dropped (`.ok()` for `?`) and
\* the reconciliation carries on without the call's effect.
FailedSwallowed(c) == [c EXCEPT !.calls = @ + 1]

\* The failing call changes nothing in the store and `?` returns its error.
Failed(c) == [c EXCEPT !.calls = @ + 1, !.failed = TRUE]

\* for (vout, script) in relevant_outputs { add_utxo(...)? }, from the i-th on
RECURSIVE AddOutputs(_, _, _, _, _)
AddOutputs(c, transaction, relevant_outputs, i, failAt) ==
    IF i > Len(relevant_outputs) THEN c
    ELSE IF CallFails(c, failAt) THEN Failed(c)
    ELSE LET txid == transaction.txid
             vout == relevant_outputs[i][1]
             script == relevant_outputs[i][2]
             amount == transaction.output[vout + 1].value
             next == [c EXCEPT
                        !.utxos = add_utxo(@, OutPoint(txid, vout), amount, script),
                        !.calls = @ + 1]
         IN AddOutputs(next, transaction, relevant_outputs, i + 1, failAt)

\* for outpoint in relevant_inputs { remove_utxo(outpoint)? }, from the i-th on
RECURSIVE RemoveInputs(_, _, _, _)
RemoveInputs(c, relevant_inputs, i, failAt) ==
    IF i > Len(relevant_inputs) THEN c
    ELSE IF CallFails(c, failAt) THEN Failed(c)
    ELSE LET next == [c EXCEPT
                        !.utxos = remove_utxo(@, relevant_inputs[i]),
                        !.calls = @ + 1]
         IN RemoveInputs(next, relevant_inputs, i + 1, failAt)

update_wallet_with_tx(c, transaction, relevant_outputs, relevant_inputs, failAt) ==
    LET a == AddOutputs(c, transaction, relevant_outputs, 1, failAt)
        r == IF a.failed THEN a ELSE RemoveInputs(a, relevant_inputs, 1, failAt)
    IN IF r.failed THEN r
       ELSE IF CallFails(r, failAt) THEN Failed(r)
       ELSE [r EXCEPT !.txs = store_transaction(@, transaction.txid),
                      !.reconciled = @ \cup {transaction.txid},
                      !.calls = @ + 1]

\* Mutant: the test of the two lists is left out, update_wallet_with_tx is
\* called for every transaction.
process_transaction_unconditional(c, transaction, failAt) ==
    LET output_scripts ==
            [i \in 1..Len(transaction.output) |-> transaction.output[i].script_pubkey]
        input_outpoints == transaction.input
        c1 == IF CallFails(c, failAt) THEN Failed(c)
              ELSE [c EXCEPT !.calls = @ + 1]
        relevant_outputs == find_relevant_outputs(output_scripts)
        c2 == IF c1.failed THEN c1
              ELSE IF CallFails(c1, failAt) THEN Failed(c1)
              ELSE [c1 EXCEPT !.calls = @ + 1]
        relevant_inputs == find_relevant_inputs(c.utxos, input_outpoints)
    IN IF c2.failed THEN c2
       ELSE update_wallet_with_tx(c2, transaction, relevant_outputs,
                                  relevant_inputs, failAt)

process_transaction(c, transaction, failAt) ==
    LET output_scripts ==
            [i \in 1..Len(transaction.output) |-> transaction.output[i].script_pubkey]
        input_outpoints == transaction.input
        \* find_relevant_outputs(..)? : a failing is_script_tracked returns the
        \* error whichever output it is asked for, so the query is one step
        c1 == IF CallFails(c, failAt) THEN Failed(c)
              ELSE [c EXCEPT !.calls = @ + 1]
        relevant_outputs == find_relevant_outputs(output_scripts)
        \* find_relevant_inputs(..)? is one fallible store query
        c2 == IF c1.failed THEN c1
              ELSE IF CallFails(c1, failAt) THEN Failed(c1)
              ELSE [c1 EXCEPT !.calls = @ + 1]
        relevant_inputs == find_relevant_inputs(c.utxos, input_outpoints)
    IN IF c2.failed THEN c2
       ELSE IF relevant_inputs # << >> \/ relevant_outputs # << >>
            THEN update_wallet_with_tx(c2, transaction, relevant_outputs,
                                       relevant_inputs, failAt)
            ELSE c2

\* The for loop of the BlockMatched arm, from the i-th transaction on: the
\* transactions in list order, each against the store left by the previous
\* one, stopping at the first error.
\* Mutant: the list is walked from its end (`transactions.into_iter().rev()`).
RECURSIVE ProcessFromReversed(_, _, _, _)
ProcessFromReversed(c, transactions, i, failAt) ==
    IF i > Len(transactions) \/ c.failed THEN c
    ELSE ProcessFromReversed(
             process_transaction(c, Tx(transactions[Len(transactions) + 1 - i]), failAt),
             transactions, i + 1, failAt)

RECURSIVE ProcessFrom(_, _, _, _)
ProcessFrom(c, transactions, i, failAt) ==
    IF i > Len(transactions) \/ c.failed THEN c
    ELSE ProcessFrom(process_transaction(c, Tx(transactions[i]), failAt),
                     transactions, i + 1, failAt)

ProcessBlock(us, txs, transactions, failAt) ==
    ProcessFrom(Ctx(us, txs), transactions, 1, failAt)

\* Number of wallet-store calls a failure-free handling of the block makes.
CallCount(us, txs, transactions) == ProcessBlock(us, txs, transactions, 0).calls

(* ------------------------- history of the events ---------------------- *)

\* The transactions reconciled at a height that is still connected.
ConnectedTxs == UNION {matched[h] : h \in BlockHeights}

\* The list delivers a transaction that is already reconciled at a connected
\* height, or the same transaction twice.
Redelivered(transactions) ==
    \/ \E i \in 1..Len(transactions) : transactions[i] \in ConnectedTxs
    \/ \E i, j \in 1..Len(transactions) : i # j /\ transactions[i] = transactions[j]

(* --------------------------- the arms' effects ------------------------- *)

\* Mutant: the loop breaks as soon as the height is within the tip.
SyncedBreaksEarly(height, tip) == height <= tip

\* Mutant: the arm has lost its break.
SyncedNeverBreaks(height, tip) == FALSE

\* Synced arm: TRUE when the loop breaks.
SyncedBreaks(height, tip) == height = tip

\* Mutant: the arm stores the event's height in the cursor.
BlockConnectedCursorSet(cursor, height) == height

\* BlockConnected arm: the cursor it leaves (the arm only logs).
BlockConnectedCursor(cursor, height) == cursor

\* BlockDisconnected arm: the cursor it leaves (the arm only logs).
BlockDisconnectedCursor(cursor, height) == cursor

(* ------------------------------ actions -------------------------------- *)

\* The state new() constructs, over an empty wallet.
Constructed ==
    /\ pc = "new"
    /\ last_sync_height = 0
    /\ fee_data = << >>
    /\ broadcasted_txs = << >>
    /\ utxos = {}
    /\ stored_txs = {}
    /\ lastEvent = NoEvent
    /\ cancel_requested = FALSE
    /\ matched = [h \in BlockHeights |-> {}]
    /\ clean = TRUE

Init == Constructed /\ recording = FALSE

\* The same program, with the history of the store calls kept.
InitRecording == Constructed /\ recording = TRUE

\* Mutant: the cursor is cleared before the tip query, so a failed query
\* leaves it at 0.
InitializeCbfSyncClearsFirst ==
    /\ pc \in {"new", "init_ok", "init_err"}
    /\ \/ \E height \in Heights :
             /\ lastEvent' = Ev("Tip", height, 0, << >>, "none")
             /\ last_sync_height' = height
             /\ pc' = "init_ok"
       \/ /\ lastEvent' = Ev("TipError", 0, 0, << >>, "none")
          /\ pc' = "init_err"
          /\ last_sync_height' = 0
    /\ UNCHANGED << fee_data, broadcasted_txs, utxos, stored_txs,
                    cancel_requested, recording, matched, clean >>

\* initialize_cbf_sync: get_tip answers (height, _) and the cursor is set to
\* the height; either error of the tip query (the command channel, or the
\* reply itself, a timeout included) returns before the set.
InitializeCbfSync ==
    /\ pc \in {"new", "init_ok", "init_err"}
    /\ \/ \E height \in Heights :
             /\ lastEvent' = Ev("Tip", height, 0, << >>, "none")
             /\ last_sync_height' = height
             /\ pc' = "init_ok"
       \/ /\ lastEvent' = Ev("TipError", 0, 0, << >>, "none")
          /\ pc' = "init_err"
          /\ UNCHANGED last_sync_height
    /\ UNCHANGED << fee_data, broadcasted_txs, utxos, stored_txs,
                    cancel_requested, recording, matched, clean >>

\* process_events is called and enters its loop; it has pulled no event yet.
ProcessEvents ==
    /\ pc # "running"
    /\ pc' = "running"
    /\ lastEvent' = NoEvent
    /\ cancel_requested' = FALSE
    /\ UNCHANGED << last_sync_height, fee_data, broadcasted_txs, utxos,
                    stored_txs, recording, matched, clean >>

\* The host asks the running loop to stop.  process_events takes no such
\* signal and reads none: no action below has the request in its guard.
RequestCancellation ==
    /\ pc = "running"
    /\ ~cancel_requested
    /\ cancel_requested' = TRUE
    /\ UNCHANGED << pc, last_sync_height, fee_data, broadcasted_txs, utxos,
                    stored_txs, lastEvent, recording, matched, clean >>

\* Mutant: the loop is `while let Ok(event) = self.get_next_event()`, so a
\* closed channel ends it like a break and process_events returns Ok.
GetNextEventErrorEndsLoopOk ==
    /\ pc = "running"
    /\ lastEvent' = Ev("ChannelClosed", 0, 0, << >>, "none")
    /\ pc' = "ok"
    /\ UNCHANGED << last_sync_height, fee_data, broadcasted_txs, utxos,
                    stored_txs, cancel_requested, recording, matched, clean >>

\* get_next_event fails: recv() reports the closed channel, and `?` returns
\* the error from process_events.
GetNextEventError ==
    /\ pc = "running"
    /\ lastEvent' = Ev("ChannelClosed", 0, 0, << >>, "none")
    /\ pc' = "nakamoto_err"
    /\ UNCHANGED << last_sync_height, fee_data, broadcasted_txs, utxos,
                    stored_txs, cancel_requested, recording, matched, clean >>

\* An arm that only logs.
Informational(ev) ==
    /\ pc = "running"
    /\ lastEvent' = ev
    /\ UNCHANGED << pc, last_sync_height, fee_data, broadcasted_txs, utxos,
                    stored_txs, cancel_requested, recording, matched, clean >>

Ready == Informational(Ev("Ready", 0, 0, << >>, "none"))

PeerConnected == Informational(Ev("PeerConnected", 0, 0, << >>, "none"))

PeerDisconnected == Informational(Ev("PeerDisconnected", 0, 0, << >>, "none"))

PeerConnectionFailed == Informational(Ev("PeerConnectionFailed", 0, 0, << >>, "none"))

PeerNegotiated == Informational(Ev("PeerNegotiated", 0, 0, << >>, "none"))

\* Mutant: the arm takes the peer's height for the cursor.
PeerHeightUpdatedSetsCursor ==
    /\ pc = "running"
    /\ lastEvent' = Ev("PeerHeightUpdated", 0, 0, << >>, "none")
    /\ \E height \in Heights : last_sync_height' = height
    /\ UNCHANGED << pc, fee_data, broadcasted_txs, utxos, stored_txs,
                    cancel_requested, recording, matched, clean >>

PeerHeightUpdated == Informational(Ev("PeerHeightUpdated", 0, 0, << >>, "none"))

FeeEstimated ==
    \E height \in BlockHeights, fees \in FeeEstimates :
        Informational(Ev("FeeEstimated", height, 0, << >>, fees))

FilterProcessed == Informational(Ev("FilterProcessed", 0, 0, << >>, "none"))

TxStatusChanged == Informational(Ev("TxStatusChanged", 0, 0, << >>, "none"))

BlockConnected ==
    /\ pc = "running"
    /\ \E height \in BlockHeights :
          /\ lastEvent' = Ev("BlockConnected", height, 0, << >>, "none")
          /\ last_sync_height' = BlockConnectedCursor(last_sync_height, height)
    /\ UNCHANGED << pc, fee_data, broadcasted_txs, utxos, stored_txs,
                    cancel_requested, recording, matched, clean >>

BlockDisconnected ==
    /\ pc = "running"
    /\ \E height \in BlockHeights :
          /\ lastEvent' = Ev("BlockDisconnected", height, 0, << >>, "none")
          /\ last_sync_height' = BlockDisconnectedCursor(last_sync_height, height)
          \* history only: the height's matches are no longer connected
          /\ matched' = IF recording
                         THEN [matched EXCEPT ![height] = {}]
                         ELSE matched
    /\ UNCHANGED << pc, fee_data, broadcasted_txs, utxos, stored_txs,
                    cancel_requested, recording, clean >>

BlockMatched ==
    /\ pc = "running"
    /\ \E transactions \in TxLists :
         \E failAt \in 0..CallCount(utxos, stored_txs, transactions) :
            LET r == ProcessBlock(utxos, stored_txs, transactions, failAt)
            IN /\ utxos' = r.utxos
               /\ stored_txs' = r.txs
               /\ pc' = IF r.failed THEN "wallet_err" ELSE "running"
               /\ \E height \in BlockHeights :
                    /\ lastEvent' = Ev("BlockMatched", height, 0, transactions, "none")
                    \* history only
                    /\ matched' = IF recording
                                   THEN [matched EXCEPT ![height] = @ \cup r.reconciled]
                                   ELSE matched
               /\ clean' = IF recording
                            THEN clean /\ ~r.failed /\ ~Redelivered(transactions)
                            ELSE clean
    /\ UNCHANGED << last_sync_height, fee_data, broadcasted_txs,
                    cancel_requested, recording >>

Synced ==
    /\ pc = "running"
    /\ \E height \in Heights, tip \in Heights :
          /\ lastEvent' = Ev("Synced", height, tip, << >>, "none")
          /\ pc' = IF SyncedBreaks(height, tip) THEN "ok" ELSE "running"
    /\ UNCHANGED << last_sync_height, fee_data, broadcasted_txs, utxos,
                    stored_txs, cancel_requested, recording, matched, clean >>

Next ==
    \/ InitializeCbfSync
    \/ ProcessEvents
    \/ GetNextEventError
    \/ Ready
    \/ PeerConnected
    \/ PeerDisconnected
    \/ PeerConnectionFailed
    \/ PeerNegotiated
    \/ PeerHeightUpdated
    \/ BlockConnected
    \/ BlockDisconnected
    \/ BlockMatched
    \/ FeeEstimated
    \/ FilterProcessed
    \/ TxStatusChanged
    \/ Synced

Spec == Init /\ [][Next]_vars

SpecRecording == InitRecording /\ [][Next]_vars

\* The program in a host that may ask the running loop to stop.
NextCancellable == Next \/ RequestCancellation

SpecCancellable == Init /\ [][NextCancellable]_vars

\* The engine delivers a Synced event whose height is its tip.
SyncedAtTip ==
    Synced /\ lastEvent'.height = lastEvent'.tip

\* The program under an engine that, as long as the loop keeps pulling,
\* eventually delivers a Synced event with height = tip.  The loop itself
\* needs no fairness: each arm returns to the blocking pull.
SpecSyncing == Init /\ [][Next]_vars /\ WF_vars(SyncedAtTip)

TypeOK ==
    /\ pc \in {"new", "init_ok", "init_err", "running", "ok",
              "nakamoto_err", "wallet_err"}
    /\ last_sync_height \in Heights
    /\ stored_txs \subseteq Txids
    /\ cancel_requested \in BOOLEAN

(* ------------------------- vocabulary of the claims -------------------- *)

Utxo(txid, vout) ==
    [outpoint |-> OutPoint(txid, vout),
     amount |-> Tx(txid).output[vout + 1].value,
     script |-> Tx(txid).output[vout + 1].script_pubkey]

\* The UTXOs a transaction's outputs to tracked scripts make.
TrackedOutputs(txid) ==
    {Utxo(txid, i - 1) : i \in {j \in 1..Len(Tx(txid).output) :
                                   Tx(txid).output[j].script_pubkey \in Tracked}}

\* The outpoints a transaction's inputs consume.
InputsOf(txid) == {Tx(txid).input[i] : i \in 1..Len(Tx(txid).input)}

CreatedBy(txids) == UNION {TrackedOutputs(t) : t \in txids}

ConsumedBy(txids) == UNION {InputsOf(t) : t \in txids}

\* A step of the loop that handles an event of the kind and keeps looping
\* (a step that leaves the request as it is: not the host's request).
Handles(kind) ==
    /\ pc = "running"
    /\ pc' = "running"
    /\ lastEvent'.kind = kind
    /\ cancel_requested' = cancel_requested

\* A step in which process_events returns Ok.
ReturnsOk == pc = "running" /\ pc' = "ok"

\* The store a failure-free handling of the first k transactions leaves.
AfterPrefix(transactions, k) ==
    ProcessBlock(utxos, stored_txs, SubSeq(transactions, 1, k), 0)

(* -------------------------------- claims ------------------------------- *)

\* C1 (Conservation): while no store call has failed and no transaction was
\* delivered twice, the UTXO set is exactly the tracked outputs of the
\* transactions reconciled at still-connected heights, minus the outpoints
\* their inputs consume; a disconnected height contributes nothing.
C1_Conservation ==
    (recording /\ clean) =>
        utxos = {u \in CreatedBy(ConnectedTxs) :
                    u.outpoint \notin ConsumedBy(ConnectedTxs)}

\* The transactions reconciled at the height and at no other connected one.
OnlyAt(height) ==
    matched[height] \ UNION {matched[k] : k \in BlockHeights \ {height}}

\* The UTXOs that transactions at the height spent and whose creating
\* transaction stays connected at another height, unspent there.
SpentAt(height) ==
    LET others == UNION {matched[k] : k \in BlockHeights \ {height}}
    IN {u \in CreatedBy(others) :
           /\ u.outpoint \in ConsumedBy(OnlyAt(height))
           /\ u.outpoint \notin ConsumedBy(others)}

\* C2 (Rollback correctness): handling BlockDisconnected(h) removes exactly the
\* UTXOs and the transaction records that the transactions matched at h
\* introduced, and restores every UTXO that a transaction at h had spent.
C2_Rollback ==
    [][(recording /\ Handles("BlockDisconnected")) =>
          LET h == lastEvent'.height
          IN /\ stored_txs' = stored_txs \ OnlyAt(h)
             /\ utxos' = {u \in utxos : u.outpoint.txid \notin OnlyAt(h)}
                            \cup SpentAt(h)]_vars

\* C3 (Atomic reconciliation): when a wallet-store call fails in the middle
\* of a BlockMatched event, the store is as the transactions before the
\* failing one left it: the failing transaction leaves no mutation behind.
C3_Atomic ==
    [][(pc = "running" /\ pc' = "wallet_err") =>
          \E k \in 0..(Len(lastEvent'.transactions) - 1) :
              /\ utxos' = AfterPrefix(lastEvent'.transactions, k).utxos
              /\ stored_txs' = AfterPrefix(lastEvent'.transactions, k).txs]_vars

\* C4 (Idempotent reconciliation): handling the BlockMatched event that was
\* handled just before once more leaves the UTXO set and the stored
\* transactions as they are.
C4_Idempotent ==
    [][(Handles("BlockMatched") /\ lastEvent' = lastEvent) =>
          (utxos' = utxos /\ stored_txs' = stored_txs)]_vars

\* C5: process_events returns Ok only on a Synced event with height = tip;
\* no other event, and no Synced event with height # tip, ends the loop
\* successfully.
C5_ReturnsOnlyWhenSynced ==
    [][ReturnsOk =>
          (/\ lastEvent'.kind = "Synced"
           /\ lastEvent'.height = lastEvent'.tip)]_vars

C5_Witness ==
    /\ pc = "ok"
    /\ lastEvent.kind = "Synced"
    /\ lastEvent.height = lastEvent.tip
    /\ lastEvent.height > 0

\* C6: when process_events returns Ok on Synced(height, tip), the cursor
\* last_sync_height equals that height.
C6_CursorAtSyncedHeight ==
    [][ReturnsOk => last_sync_height' = lastEvent'.height]_vars

\* C7: handling BlockConnected(height) sets the cursor to height when height
\* is greater than the cursor, and leaves it unchanged otherwise.
C7_BlockConnectedAdvances ==
    [][Handles("BlockConnected") =>
          last_sync_height' = IF lastEvent'.height > last_sync_height
                              THEN lastEvent'.height
                              ELSE last_sync_height]_vars

\* C8: handling BlockDisconnected(height) sets the cursor to height - 1.
C8_BlockDisconnectedRewinds ==
    [][Handles("BlockDisconnected") =>
          last_sync_height' = lastEvent'.height - 1]_vars

EffectOf(txid, before, after) ==
    /\ \A i \in 1..Len(Tx(txid).output) :
          IF Tx(txid).output[i].script_pubkey \in Tracked
          THEN Utxo(txid, i - 1) \in after
          ELSE is_utxo_tracked(after, OutPoint(txid, i - 1))
                  => is_utxo_tracked(before, OutPoint(txid, i - 1))
    /\ \A op \in InputsOf(txid) :
          is_utxo_tracked(before, op) => ~is_utxo_tracked(after, op)

C10_MatchedEffect ==
    [][Handles("BlockMatched") =>
          LET transactions == lastEvent'.transactions
              n == Len(transactions)
          IN \A k \in 1..n :
                EffectOf(transactions[k],
                         AfterPrefix(transactions, k - 1).utxos,
                         IF k = n THEN utxos'
                         ELSE AfterPrefix(transactions, k).utxos)]_vars

\* T1 then T2 were reconciled by one event: T1:2 is held, T1:0 is spent.
C10_Witness ==
    /\ pc = "running"
    /\ lastEvent.kind = "BlockMatched"
    /\ lastEvent.transactions = << "T1", "T2" >>
    /\ utxos = {Utxo("T1", 2)}
    /\ stored_txs = {"T1", "T2"}

\* A step of the loop that pulls a BlockMatched event and handles it, with
\* or without a failing store call.
HandlesBlockMatched ==
    /\ pc = "running"
    /\ lastEvent'.kind = "BlockMatched"
    /\ pc' \in {"running", "wallet_err"}
    /\ cancel_requested' = cancel_requested

\* C11: a WalletStoreError raised while a transaction of a BlockMatched event
\* is reconciled aborts the event.  process_events returns the error exactly
\* when a store call failed: if it returns the error, the store is what the
\* transactions ahead of the failing one made of it, but for UTXOs the
\* failing one had added or removed before the call that failed; the failing
\* one is not stored and the transactions after it have not been applied; if
\* it keeps looping, every transaction was handled without a failure.  The cursor is as it was, and once the error is
\* returned no event is handled until process_events is called again.
C11_WalletErrorAborts ==
    [][/\ HandlesBlockMatched =>
            LET transactions == lastEvent'.transactions
            IN /\ last_sync_height' = last_sync_height
               /\ IF pc' = "wallet_err"
                  THEN \E k \in 1..Len(transactions) :
                         LET ahead == AfterPrefix(transactions, k - 1)
                             failing == transactions[k]
                         IN /\ stored_txs' = ahead.txs
                            /\ utxos' \ ahead.utxos \subseteq TrackedOutputs(failing)
                            /\ \A u \in ahead.utxos \ utxos' :
                                  u.outpoint \in InputsOf(failing)
                  ELSE LET all == AfterPrefix(transactions, Len(transactions))
                       IN utxos' = all.utxos /\ stored_txs' = all.txs
       /\ pc = "wallet_err" =>
            /\ pc' \in {"wallet_err", "running"}
            /\ lastEvent' \in {lastEvent, NoEvent}
            /\ UNCHANGED << utxos, stored_txs, last_sync_height >>]_vars

\* [T1, T2] on a store without T1: T1 was reconciled, then a store call of
\* T2 failed before its remove_utxo, and process_events returned the error.
C11_Witness ==
    /\ pc = "wallet_err"
    /\ lastEvent.kind = "BlockMatched"
    /\ lastEvent.transactions = << "T1", "T2" >>
    /\ utxos = {Utxo("T1", 0), Utxo("T1", 2)}
    /\ stored_txs = {"T1"}

\* C12: when the event source fails (the channel is closed), process_events
\* leaves the loop returning that error, with the wallet store, the cursor
\* and the fee cache as the last handled event left them; no event is
\* handled after it until process_events is called again.
C12_ChannelClosedReturnsError ==
    [][/\ (pc = "running" /\ lastEvent'.kind = "ChannelClosed") =>
            /\ pc' = "nakamoto_err"
            /\ UNCHANGED << utxos, stored_txs, last_sync_height, fee_data >>
       /\ pc = "nakamoto_err" =>
            /\ pc' \in {"nakamoto_err", "running"}
            /\ lastEvent' \in {lastEvent, NoEvent}
            /\ UNCHANGED << utxos, stored_txs, last_sync_height, fee_data >>]_vars

\* The channel closed after T1 had been reconciled: the error is returned
\* and T1's UTXOs and record are in the store.
C12_Witness ==
    /\ pc = "nakamoto_err"
    /\ lastEvent.kind = "ChannelClosed"
    /\ utxos = {Utxo("T1", 0), Utxo("T1", 2)}
    /\ stored_txs = {"T1"}

\* C13: handling FeeEstimated(height, estimate) leaves the fee cache mapping
\* height to that estimate, inserted or replaced, with the entries of all
\* other heights unchanged.
C13_FeeEstimatedCached ==
    [][Handles("FeeEstimated") =>
          fee_data' = add_fee_data(fee_data, lastEvent'.height, lastEvent'.fees)]_vars

\* C14: the loop checks an external cancellation signal between events:
\* once the host has requested cancellation, process_events stops before it
\* pulls or handles a further event (the loop is left with the store as it
\* is and no event handled; a pull that was already blocked may still report
\* the closed channel), and it never stops in the middle of reconciling a
\* transaction.
C14_CancellationBetweenEvents ==
    [][(pc = "running" /\ cancel_requested) =>
          /\ pc' # "running"
          /\ lastEvent' = lastEvent \/ lastEvent'.kind = "ChannelClosed"
          /\ UNCHANGED << utxos, stored_txs >>]_vars

\* The transaction has no output to a tracked script and no input that is a
\* UTXO of the store `us`.
Irrelevant(txid, us) ==
    /\ TrackedOutputs(txid) = {}
    /\ \A op \in InputsOf(txid) : ~is_utxo_tracked(us, op)

\* C15: a matched transaction with no relevant output and no relevant input
\* is a no-op.  For the k-th transaction of a BlockMatched event handled
\* without error, when it is irrelevant to the store the transactions ahead
\* of it left, the UTXO set and the stored transactions after it are the ones
\* before it; and a transaction newly in the stored set is one that was
\* relevant when its turn came (store_transaction is called for no other).
C15_IrrelevantIsNoOp ==
    [][Handles("BlockMatched") =>
          LET transactions == lastEvent'.transactions
              n == Len(transactions)
              before(k) == AfterPrefix(transactions, k - 1)
              after(k) == IF k = n
                          THEN [utxos |-> utxos', txs |-> stored_txs']
                          ELSE AfterPrefix(transactions, k)
          IN /\ \A k \in 1..n :
                   Irrelevant(transactions[k], before(k).utxos) =>
                       /\ after(k).utxos = before(k).utxos
                       /\ after(k).txs = before(k).txs
             /\ \A t \in stored_txs' \ stored_txs :
                   \E k \in 1..n : /\ transactions[k] = t
                                    /\ ~Irrelevant(t, before(k).utxos)
             /\ AfterPrefix(transactions, n).reconciled =
                   {transactions[k] : k \in {j \in 1..n :
                        ~Irrelevant(transactions[j], before(j).utxos)}}]_vars

\* T2 alone was matched on an empty store: it pays no tracked script and
\* spends nothing the store holds, and nothing was written.
C15_Witness ==
    /\ pc = "running"
    /\ lastEvent.kind = "BlockMatched"
    /\ lastEvent.transactions = << "T2" >>
    /\ utxos = {}
    /\ stored_txs = {}

InformationalKinds ==
    {"Ready", "PeerConnected", "PeerDisconnected", "PeerConnectionFailed",
     "PeerNegotiated", "PeerHeightUpdated", "FilterProcessed", "TxStatusChanged"}

\* C16: pulling and handling any of Ready, PeerConnected, PeerDisconnected,
\* PeerConnectionFailed, PeerNegotiated, PeerHeightUpdated, FilterProcessed
\* or TxStatusChanged leaves the wallet store, the cursor, the fee cache and
\* the broadcast log unchanged and does not end the loop.
C16_InformationalNoChange ==
    [][(/\ pc = "running"
        /\ lastEvent'.kind \in InformationalKinds
        /\ cancel_requested' = cancel_requested) =>
          /\ pc' = "running"
          /\ UNCHANGED << utxos, stored_txs, last_sync_height, fee_data,
                          broadcasted_txs >>]_vars

\* PeerHeightUpdated was handled after an initialize_cbf_sync that set the
\* cursor and after T1 had been reconciled: all of it stands.
C16_Witness ==
    /\ pc = "running"
    /\ lastEvent.kind = "PeerHeightUpdated"
    /\ last_sync_height = 1
    /\ utxos = {Utxo("T1", 0), Utxo("T1", 2)}
    /\ stored_txs = {"T1"}

\* C17: initialize_cbf_sync sets the cursor to the tip height the engine
\* returned when the tip query succeeds; when the query fails (a timeout
\* included) it returns an error value and leaves the cursor unchanged.  It
\* touches nothing else.
C17_InitializeCbfSync ==
    [][(\/ (lastEvent'.kind \in {"Tip", "TipError"} /\ lastEvent' # lastEvent)
        \/ (pc' \in {"init_ok", "init_err"} /\ pc' # pc)) =>
          /\ IF lastEvent'.kind = "Tip"
             THEN pc' = "init_ok" /\ last_sync_height' = lastEvent'.height
             ELSE /\ lastEvent'.kind = "TipError"
                  /\ pc' = "init_err"
                  /\ last_sync_height' = last_sync_height
          /\ UNCHANGED << utxos, stored_txs, fee_data, broadcasted_txs >>]_vars

\* A first initialize_cbf_sync set the cursor to 2; the tip query of a
\* second one failed and the cursor is still 2.
C17_Witness ==
    /\ pc = "init_err"
    /\ lastEvent.kind = "TipError"
    /\ last_sync_height = 2

OutputScripts(txid) ==
    [i \in 1..Len(Tx(txid).output) |-> Tx(txid).output[i].script_pubkey]

\* r lists, in ascending order and once each, the elements of s that
\* satisfy keep, tagged by tag.
IsFilterOf(r, s, keep(_), tag(_, _)) ==
    LET kept == {i \in 1..Len(s) : keep(s[i])}
    IN /\ Len(r) = Cardinality(kept)
       /\ \E pos \in [1..Len(r) -> kept] :
             /\ \A j \in 1..Len(r) : r[j] = tag(pos[j], s[pos[j]])
             /\ \A j \in 1..(Len(r) - 1) : pos[j] < pos[j + 1]

\* C18 (Relevance matching): against the store as it stands, for every
\* transaction, relevant_outputs is exactly the (index, script) of the
\* outputs whose script is tracked, in ascending output index, and
\* relevant_inputs is exactly the input outpoints that are UTXOs of the
\* store, in input order; and computing them mutates nothing: when the
\* first store call after either query is the one that fails (the second,
\* resp. third, call of the transaction), the store is as before.
C18_RelevanceMatching ==
    \A txid \in Txids :
        /\ IsFilterOf(find_relevant_outputs(OutputScripts(txid)),
                      OutputScripts(txid),
                      LAMBDA script : script \in Tracked,
                      LAMBDA i, script : << i - 1, script >>)
        /\ IsFilterOf(find_relevant_inputs(utxos, Tx(txid).input),
                      Tx(txid).input,
                      LAMBDA op : \E u \in utxos : u.outpoint = op,
                      LAMBDA i, op : op)
        /\ \A failAt \in 2..3 :
              LET r == ProcessBlock(utxos, stored_txs, << txid >>, failAt)
              IN r.failed => (r.utxos = utxos /\ r.txs = stored_txs)

\* T1 has been reconciled: T2's input T1:0 is now a UTXO of the store, and
\* so relevant, while its input E:1 is not.
C18_Witness ==
    /\ Utxo("T1", 0) \in utxos
    /\ find_relevant_inputs(utxos, Tx("T2").input) = << OutPoint("T1", 0) >>
    /\ find_relevant_outputs(OutputScripts("T1")) = << << 0, "S" >>, << 2, "S" >> >>

\* C19 (Liveness of the sync loop): under an engine that eventually delivers
\* Synced with height = tip, a running process_events eventually returns:
\* successfully, unless an event pull or a wallet-store call fails first.
\* Having returned Ok on the Synced event it consumes no event after it: the
\* last event stays that Synced event until process_events is called again.
C19_EventuallyReturns ==
    /\ (pc = "running") ~> (pc \in {"ok", "nakamoto_err", "wallet_err"})
    /\ [][pc = "ok" => /\ pc' \in {"ok", "running"}
                       /\ lastEvent' \in {lastEvent, NoEvent}
                       /\ UNCHANGED << utxos, stored_txs >>]_vars

\* process_events returned Ok on Synced(2, 2) after it had pulled and
\* reconciled T1 and T2.
C19_Witness ==
    /\ pc = "ok"
    /\ lastEvent = Ev("Synced", 2, 2, << >>, "none")
    /\ stored_txs = {"T1", "T2"}

\* The transaction creates the outpoint as a UTXO, resp. spends it.
Creates(txid, op) == \E u \in TrackedOutputs(txid) : u.outpoint = op

Spends(txid, op) == op \in InputsOf(txid)

\* C20: within one BlockMatched event the transactions are applied one after
\* another in list order, each against the store the previous one left.  For
\* an outpoint that transactions of the event create and spend, after an
\* event handled without error: if the last of them in the list is a spender
\* (the creator came earlier), the outpoint is not in the UTXO set; if the
\* last of them is the creator (the spender came earlier), the UTXO remains.
C20_ListOrder ==
    [][Handles("BlockMatched") =>
          LET transactions == lastEvent'.transactions
              n == Len(transactions)
          IN \A c \in Txids : \A u \in TrackedOutputs(c) :
                LET op == u.outpoint
                    touch == {k \in 1..n : \/ transactions[k] = c
                                           \/ Spends(transactions[k], op)}
                    creators == {k \in 1..n : transactions[k] = c}
                    spenders == {k \in 1..n : Spends(transactions[k], op)}
                IN (creators # {} /\ spenders # {}) =>
                      LET last == CHOOSE k \in touch : \A j \in touch : j <= k
                      IN IF last \in spenders
                         THEN ~is_utxo_tracked(utxos', op)
                         ELSE u \in utxos']_vars

\* [T2, T1] on an empty store: the spender came first and found nothing to
\* spend, so it was skipped, and T1:0 remains.
C20_Witness ==
    /\ pc = "running"
    /\ lastEvent.kind = "BlockMatched"
    /\ lastEvent.transactions = << "T2", "T1" >>
    /\ utxos = {Utxo("T1", 0), Utxo("T1", 2)}
    /\ stored_txs = {"T1"}

====
